---- MODULE Spec2Model ----
(***************************************************************************)
(* Model of rpi_ws281x-c (src/src/lib.rs): the Channel value type, the     *)
(* DriverBuilder and the Driver wrapper around the ws2811 hardware layer.  *)
(*                                                                         *)
(* debug_assert! is modelled as a checked contract (the debug profile, in  *)
(* which `cargo build` and `cargo test` compile the crate): a failed       *)
(* assertion panics.  The hardware layer (the bindings crate) is not part  *)
(* of the sources; its effect on the session structure is modelled from    *)
(* the specification's description of it and from the comment at           *)
(* lib.rs:414.                                                             *)
(***************************************************************************)
EXTENDS Integers, Sequences, FiniteSets, TLC

(* ---- bounds ---- *)
MaxLeds == 1
MaxWait == 1

(* ---- program constants ---- *)
Pwm0_1 == 12
Pwm0_2 == 18
Pwm1_1 == 13
Pwm1_2 == 19
Spi0 == 10
PcmBoard == 21
PcmP5 == 31
WS2811_TARGET_FREQ == 800000
DefaultDma == 10

PwmPin == {Pwm0_1, Pwm0_2, Pwm1_1, Pwm1_2}
SpiPin == {Spi0}
PcmPin == {PcmBoard, PcmP5}

StripTypes == {"WS2811_STRIP_RGB", "WS2811_STRIP_RBG", "WS2811_STRIP_GRB",
               "WS2811_STRIP_GBR", "WS2811_STRIP_BGR", "WS2811_STRIP_BRG"}

ErrorCode == {"WS2811_SUCCESS", "WS2811_ERROR_GENERIC", "WS2811_ERROR_OUT_OF_MEMORY"}

(* ---- input domains ---- *)
BrightnessValues == {0, 255}
StripInputs == {"WS2811_STRIP_RGB", "WS2811_STRIP_GRB"}
LedCounts == 0..MaxLeds
FreqValues == {0, 400000, WS2811_TARGET_FREQ}
DmaValues == {5, DefaultDma}
WaitValues == 0..MaxWait

NULL == "null"
NoChannel == [moved |-> TRUE]
NoDriver == [built |-> FALSE]

VARIABLES
    ch,         \* the Channel value the program is constructing, or NoChannel
    chInert,    \* history: ch came from disabled() through brightness/strip setters only
    builder,    \* the DriverBuilder
    slotInert,  \* history: per slot, the channel in it is an inert one
    driver,     \* Driver.inner, or NoDriver before build()
    phase,      \* "config", "built", "unwinding", "dropped", "panicked", "aborted"
    ret,        \* the last call of the wrapper API and what it returned
    hwTrace,    \* the hardware-layer calls made by that last call
    finiCalls,  \* history: number of ws2811_fini calls on this Driver
    claims      \* history: number of times the hardware layer claimed the session

vars == <<ch, chInert, builder, slotInert, driver, phase, ret, hwTrace, finiCalls, claims>>

\* what a call returned: "unit", "value" (with the value), "view" (with its
\* length), "Ok", "Err" (with the code) or "panic"
Result(kind, val) == [kind |-> kind, val |-> val]
Unit == Result("unit", 0)

(* ======================= Channel ======================= *)

Channel_disabled ==
    [gpionum |-> 0, invert |-> 0, count |-> 0, strip_type |-> "WS2811_STRIP_RGB",
     leds |-> NULL, brightness |-> 0, wshift |-> 0, rshift |-> 0, gshift |-> 0,
     bshift |-> 0, gamma |-> NULL]

Channel_set_pin(pin) == [Channel_disabled EXCEPT !.gpionum = pin]

Channel_set_led_count(c, led_count) == [c EXCEPT !.count = led_count]

Channel_set_brightness(c, brightness) == [c EXCEPT !.brightness = brightness]

Channel_get_brightness(c) == c.brightness

\* variant: rebuilds the channel from the default one, losing the strip type
Channel_change_brightness_rebuild(c, brightness) ==
    [c EXCEPT !.brightness = brightness, !.strip_type = "WS2811_STRIP_RGB"]

Channel_change_brightness(c, brightness) == [c EXCEPT !.brightness = brightness]

Channel_set_strip(c, strip) == [c EXCEPT !.strip_type = strip]

\* variant: no null check before the view is made
Channel_leds_unchecked(c) == Result("view", c.count)

\* leds()/leds_mut(): debug_assert!(!leds.is_null()), then a view of `count` words
Channel_leds(c) ==
    IF c.leds = NULL THEN Result("panic", 0)
    ELSE Result("view", c.count)

(* ======================= DriverBuilder ======================= *)

DriverBuilder_new ==
    [render_wait_time |-> 0, freq |-> WS2811_TARGET_FREQ, dma_channel |-> DefaultDma,
     channel |-> <<Channel_disabled, Channel_disabled>>]

\* the last call that returned something to the caller (or panicked); calls
\* that return nothing (or only `self`) leave NoCall
Call(op, target, result) == [op |-> op, target |-> target, result |-> result]
NoCall == Call("-", "-", Unit)

Init ==
    /\ ch = NoChannel
    /\ chInert = FALSE
    /\ builder = DriverBuilder_new
    /\ slotInert = <<TRUE, TRUE>>
    /\ driver = NoDriver
    /\ phase = "config"
    /\ ret = NoCall
    /\ hwTrace = <<>>
    /\ finiCalls = 0
    /\ claims = 0

(* ---- Channel construction (phase "config") ---- *)

Disabled ==
    /\ phase = "config"
    /\ ch' = Channel_disabled
    /\ chInert' = TRUE
    /\ ret' = NoCall
    /\ UNCHANGED <<builder, slotInert, driver, phase, hwTrace, finiCalls, claims>>

SetPin(op, pins) ==
    /\ phase = "config"
    /\ \E pin \in pins :
         /\ ch' = Channel_set_pin(pin)
         /\ ret' = NoCall
    /\ chInert' = FALSE
    /\ UNCHANGED <<builder, slotInert, driver, phase, hwTrace, finiCalls, claims>>

SetPwm == SetPin("set_pwm", PwmPin)
SetPcm == SetPin("set_pcm", PcmPin)
SetSpi == SetPin("set_spi", SpiPin)

\* a failed debug_assert! outside a Driver's scope: the program unwinds
Panic(op, target) ==
    /\ phase' = "panicked"
    /\ ret' = Call(op, target, Result("panic", 0))

SetLedCount ==
    /\ phase = "config"
    /\ ch # NoChannel
    /\ \E led_count \in LedCounts :
         IF led_count > 0
         THEN /\ ch' = Channel_set_led_count(ch, led_count)
              /\ chInert' = FALSE
              /\ ret' = NoCall
              /\ UNCHANGED phase
         ELSE /\ Panic("set_led_count", "ch")
              /\ ch' = NoChannel
              /\ chInert' = FALSE
    /\ UNCHANGED <<builder, slotInert, driver, hwTrace, finiCalls, claims>>

SetBrightnessTo(b) ==
    /\ phase = "config"
    /\ ch # NoChannel
    /\ ch' = Channel_set_brightness(ch, b)
    /\ ret' = NoCall
    /\ UNCHANGED <<chInert, builder, slotInert, driver, phase, hwTrace, finiCalls, claims>>

SetBrightness == \E b \in BrightnessValues : SetBrightnessTo(b)

ChangeBrightnessValueTo(b) ==
    /\ phase = "config"
    /\ ch # NoChannel
    /\ ch' = Channel_change_brightness(ch, b)
    /\ ret' = NoCall
    /\ UNCHANGED <<chInert, builder, slotInert, driver, phase, hwTrace, finiCalls, claims>>

ChangeBrightnessValue == \E b \in BrightnessValues : ChangeBrightnessValueTo(b)

SetStrip ==
    /\ phase = "config"
    /\ ch # NoChannel
    /\ \E strip \in StripInputs :
         /\ ch' = Channel_set_strip(ch, strip)
         /\ ret' = NoCall
    /\ UNCHANGED <<chInert, builder, slotInert, driver, phase, hwTrace, finiCalls, claims>>

GetBrightnessValue ==
    /\ phase = "config"
    /\ ch # NoChannel
    /\ ret' = Call("get_brightness", "ch", Result("value", Channel_get_brightness(ch)))
    /\ UNCHANGED <<ch, chInert, builder, slotInert, driver, phase, hwTrace, finiCalls, claims>>

\* leds()/leds_mut() on a channel value that is not inside a Driver
LedsValue ==
    /\ phase = "config"
    /\ ch # NoChannel
    /\ \E op \in {"leds", "leds_mut"} :
         LET r == Channel_leds(ch) IN
         IF r.kind = "panic"
         THEN /\ Panic(op, "ch")
              /\ ch' = NoChannel
              /\ chInert' = FALSE
         ELSE /\ ret' = Call(op, "ch", r)
              /\ UNCHANGED <<phase, ch, chInert>>
    /\ UNCHANGED <<builder, slotInert, driver, hwTrace, finiCalls, claims>>

(* ---- DriverBuilder (phase "config") ---- *)

DriverBuilder_render_wait_time(b, render_wait_time) ==
    [b EXCEPT !.render_wait_time = render_wait_time]

DriverBuilder_freq(b, freq) == [b EXCEPT !.freq = freq]

DriverBuilder_dma(b, dma_num) == [b EXCEPT !.dma_channel = dma_num]

\* variant: only the first assertion
channel1_contract_first_only(c) == c.gpionum # Pwm1_1

\* the two debug_assert! of channel1: both must hold
channel1_contract(c) == c.gpionum # Pwm1_1 /\ c.gpionum # Pwm1_2

\* the two debug_assert! of channel2: both must hold
channel2_contract(c) == c.gpionum = Pwm1_1 /\ c.gpionum = Pwm1_2

DriverBuilder_channel1(b, c) == [b EXCEPT !.channel[1] = c]

DriverBuilder_channel2(b, c) == [b EXCEPT !.channel[2] = c]

DriverBuilder_build(b) ==
    [render_wait_time |-> 0, device |-> NULL, rpi_hw |-> NULL, freq |-> b.freq,
     dmanum |-> b.dma_channel, channel |-> b.channel]

RenderWaitTime ==
    /\ phase = "config"
    /\ \E us \in WaitValues : builder' = DriverBuilder_render_wait_time(builder, us)
    /\ ret' = NoCall
    /\ UNCHANGED <<ch, chInert, slotInert, driver, phase, hwTrace, finiCalls, claims>>

Freq ==
    /\ phase = "config"
    /\ \E freq \in FreqValues :
         IF freq > 0
         THEN /\ builder' = DriverBuilder_freq(builder, freq)
              /\ ret' = NoCall
              /\ UNCHANGED phase
         ELSE /\ Panic("freq", "builder")
              /\ UNCHANGED builder
    /\ UNCHANGED <<ch, chInert, slotInert, driver, hwTrace, finiCalls, claims>>

Dma ==
    /\ phase = "config"
    /\ \E dma_num \in DmaValues : builder' = DriverBuilder_dma(builder, dma_num)
    /\ ret' = NoCall
    /\ UNCHANGED <<ch, chInert, slotInert, driver, phase, hwTrace, finiCalls, claims>>

\* channel1(channel): the channel is moved into the call
Channel1 ==
    /\ phase = "config"
    /\ ch # NoChannel
    /\ IF channel1_contract(ch)
       THEN /\ builder' = DriverBuilder_channel1(builder, ch)
            /\ slotInert' = [slotInert EXCEPT ![1] = chInert]
            /\ ret' = NoCall
            /\ UNCHANGED phase
       ELSE /\ Panic("channel1", "builder")
            /\ UNCHANGED <<builder, slotInert>>
    /\ ch' = NoChannel
    /\ chInert' = FALSE
    /\ UNCHANGED <<driver, hwTrace, finiCalls, claims>>

\* channel2(channel): the channel is moved into the call
Channel2 ==
    /\ phase = "config"
    /\ ch # NoChannel
    /\ IF channel2_contract(ch)
       THEN /\ builder' = DriverBuilder_channel2(builder, ch)
            /\ slotInert' = [slotInert EXCEPT ![2] = chInert]
            /\ ret' = NoCall
            /\ UNCHANGED phase
       ELSE /\ Panic("channel2", "builder")
            /\ UNCHANGED <<builder, slotInert>>
    /\ ch' = NoChannel
    /\ chInert' = FALSE
    /\ UNCHANGED <<driver, hwTrace, finiCalls, claims>>

\* build(): always Ok; a channel value still under construction is left behind
Build ==
    /\ phase = "config"
    /\ driver' = DriverBuilder_build(builder)
    /\ phase' = "built"
    /\ ret' = Call("build", "builder", Result("Ok", 0))
    /\ ch' = NoChannel
    /\ chInert' = FALSE
    /\ UNCHANGED <<builder, slotInert, hwTrace, finiCalls, claims>>

(* ======================= hardware layer ======================= *)
(* The ws2811_* routines of the bindings crate, as the wrapper sees them:  *)
(* each takes the session structure (&mut inner) and may rewrite it.       *)

GammaFactors == {1, 2}

\* the session after the hardware layer claimed it: device handle set, pixel
\* buffers and gamma tables allocated for the channels that have pixels
HwClaimed(inner) ==
    [inner EXCEPT !.device = "device",
                  !.rpi_hw = "rpi_hw",
                  !.channel = [i \in 1..2 |->
                      IF inner.channel[i].count > 0
                      THEN [inner.channel[i] EXCEPT !.leds = "buffer", !.gamma = "table"]
                      ELSE inner.channel[i]]]

\* a session the layer released: the device handle is null again but the
\* board descriptor (static data of the library) is still set
HwReleased(inner) == inner.device = NULL /\ inner.rpi_hw # NULL

HwOutcome(inner, claimed, abort, result) ==
    [inner |-> inner, claimed |-> claimed, abort |-> abort, result |-> result]

\* outcomes of a hardware-touching routine.  On a session never claimed the
\* layer either claims it (and then reports any code) or fails; on a claimed
\* one it reports any code; on a released one the call is invalid: it
\* reports any code or the process aborts
HwTouch(inner) ==
    IF inner.device # NULL
    THEN {HwOutcome(inner, FALSE, FALSE, r) : r \in ErrorCode}
    ELSE IF ~HwReleased(inner)
    THEN {HwOutcome(HwClaimed(inner), TRUE, FALSE, r) : r \in ErrorCode}
         \cup {HwOutcome(inner, FALSE, FALSE, r) : r \in ErrorCode \ {"WS2811_SUCCESS"}}
    ELSE {HwOutcome(inner, FALSE, FALSE, r) : r \in ErrorCode}
         \cup {HwOutcome(inner, FALSE, TRUE, "none")}

ws2811_render(inner) == HwTouch(inner)

ws2811_wait(inner) == HwTouch(inner)

\* the gamma tables' contents are not modelled; invalid on a released session
ws2811_set_custom_gamma_factor(inner, factor) ==
    {HwOutcome(inner, FALSE, FALSE, "void")}
    \cup (IF HwReleased(inner) THEN {HwOutcome(inner, FALSE, TRUE, "none")} ELSE {})

\* "all dynamic memory is freed and NULLed after this"
ws2811_fini(inner) ==
    [inner EXCEPT !.device = NULL,
                  !.channel = [i \in 1..2 |->
                      [inner.channel[i] EXCEPT !.leds = NULL, !.gamma = NULL]]]

\* one entry of hwTrace: the routine, the session it was handed and its result
HwCall(fn, inner, arg, result) ==
    [fn |-> fn, device |-> inner.device, released |-> finiCalls > 0,
     render_wait_time |-> inner.render_wait_time, freq |-> inner.freq,
     dmanum |-> inner.dmanum, arg |-> arg, result |-> result]

(* ======================= Driver ======================= *)

Driver_channel1(inner) == inner.channel[1]

Driver_channel2(inner) == inner.channel[2]

Driver_channel(inner, i) == IF i = 1 THEN Driver_channel1(inner) ELSE Driver_channel2(inner)

Driver_channel1_mut(inner, c) == [inner EXCEPT !.channel[1] = c]

Driver_channel2_mut(inner, c) == [inner EXCEPT !.channel[2] = c]

Driver_channel_mut(inner, i, c) ==
    IF i = 1 THEN Driver_channel1_mut(inner, c) ELSE Driver_channel2_mut(inner, c)

SlotName(i) == IF i = 1 THEN "channel1" ELSE "channel2"

\* variant: the result code is dropped
Driver_match_swallow(result) == Result("Ok", 0)

\* the match on the hardware layer's result code in render() and wait()
Driver_match(result) ==
    IF result = "WS2811_SUCCESS" THEN Result("Ok", 0) ELSE Result("Err", result)

\* variant: no null check
Driver_stop_unguarded(inner) ==
    [inner |-> ws2811_fini(inner),
     calls |-> <<HwCall("ws2811_fini", inner, 0, "void")>>]

\* variant: the release is left out
Driver_stop_noop(inner) == [inner |-> inner, calls |-> <<>>]

\* stop(): ws2811_fini only if the device handle is not null
Driver_stop(inner) ==
    IF inner.device # NULL
    THEN [inner |-> ws2811_fini(inner),
          calls |-> <<HwCall("ws2811_fini", inner, 0, "void")>>]
    ELSE [inner |-> inner, calls |-> <<>>]

\* what the caller gets back from render()/wait(), unless the process died
Returned(o) == IF o.abort THEN Result("abort", 0) ELSE Driver_match(o.result)

Render ==
    /\ phase = "built"
    /\ \E o \in ws2811_render(driver) :
         /\ driver' = o.inner
         /\ claims' = IF o.claimed THEN claims + 1 ELSE claims
         /\ hwTrace' = <<HwCall("ws2811_render", driver, 0, o.result)>>
         /\ ret' = Call("render", "driver", Returned(o))
         /\ phase' = IF o.abort THEN "aborted" ELSE phase
    /\ UNCHANGED <<ch, chInert, builder, slotInert, finiCalls>>

Wait ==
    /\ phase = "built"
    /\ \E o \in ws2811_wait(driver) :
         /\ driver' = o.inner
         /\ claims' = IF o.claimed THEN claims + 1 ELSE claims
         /\ hwTrace' = <<HwCall("ws2811_wait", driver, 0, o.result)>>
         /\ ret' = Call("wait", "driver", Returned(o))
         /\ phase' = IF o.abort THEN "aborted" ELSE phase
    /\ UNCHANGED <<ch, chInert, builder, slotInert, finiCalls>>

SetGammaFactor ==
    /\ phase = "built"
    /\ \E factor \in GammaFactors :
         \E o \in ws2811_set_custom_gamma_factor(driver, factor) :
             /\ driver' = o.inner
             /\ hwTrace' = <<HwCall("ws2811_set_custom_gamma_factor", driver, factor, o.result)>>
                      /\ ret' = IF o.abort
                       THEN Call("set_gamma_factor", "driver", Result("abort", 0))
                       ELSE NoCall
             /\ phase' = IF o.abort THEN "aborted" ELSE phase
    /\ UNCHANGED <<ch, chInert, builder, slotInert, finiCalls, claims>>

Stop ==
    /\ phase = "built"
    /\ LET s == Driver_stop(driver) IN
         /\ driver' = s.inner
         /\ hwTrace' = s.calls
         /\ finiCalls' = finiCalls + Len(s.calls)
    /\ ret' = NoCall
    /\ UNCHANGED <<ch, chInert, builder, slotInert, phase, claims>>

\* Drop for Driver: runs stop() when the owning scope ends, also by unwinding
Drop ==
    /\ phase \in {"built", "unwinding"}
    /\ LET s == Driver_stop(driver) IN
         /\ driver' = s.inner
         /\ hwTrace' = s.calls
         /\ finiCalls' = finiCalls + Len(s.calls)
    /\ phase' = "dropped"
    /\ UNCHANGED <<ch, chInert, builder, slotInert, ret, claims>>

\* channel1_mut()/channel2_mut() followed by change_brightness
ChangeBrightnessSlotTo(i, b) ==
    /\ phase = "built"
    /\ driver' = Driver_channel_mut(driver, i,
                      Channel_change_brightness(Driver_channel(driver, i), b))
    /\ ret' = NoCall
    /\ hwTrace' = <<>>
    /\ UNCHANGED <<ch, chInert, builder, slotInert, phase, finiCalls, claims>>

ChangeBrightnessSlot == \E i \in 1..2, b \in BrightnessValues : ChangeBrightnessSlotTo(i, b)

\* channel1()/channel2() followed by get_brightness
GetBrightnessSlot ==
    /\ phase = "built"
    /\ \E i \in 1..2 :
         ret' = Call("get_brightness", SlotName(i),
                     Result("value", Channel_get_brightness(Driver_channel(driver, i))))
    /\ hwTrace' = <<>>
    /\ UNCHANGED <<ch, chInert, builder, slotInert, driver, phase, finiCalls, claims>>

\* channel1()/channel2() followed by leds(), or the _mut pair; a failed
\* debug_assert! unwinds through the scope that owns the Driver
LedsSlot ==
    /\ phase = "built"
    /\ \E i \in 1..2, op \in {"leds", "leds_mut"} :
         LET r == Channel_leds(Driver_channel(driver, i)) IN
         /\ ret' = Call(op, SlotName(i), r)
         /\ phase' = IF r.kind = "panic" THEN "unwinding" ELSE phase
    /\ hwTrace' = <<>>
    /\ UNCHANGED <<ch, chInert, builder, slotInert, driver, finiCalls, claims>>

Next ==
    \/ Disabled
    \/ SetPwm
    \/ SetPcm
    \/ SetSpi
    \/ SetLedCount
    \/ SetBrightness
    \/ ChangeBrightnessValue
    \/ SetStrip
    \/ GetBrightnessValue
    \/ LedsValue
    \/ RenderWaitTime
    \/ Freq
    \/ Dma
    \/ Channel1
    \/ Channel2
    \/ Build
    \/ Render
    \/ Wait
    \/ SetGammaFactor
    \/ Stop
    \/ Drop
    \/ ChangeBrightnessSlot
    \/ GetBrightnessSlot
    \/ LedsSlot

Spec == Init /\ [][Next]_vars

(* ======================= properties ======================= *)

SecondaryPwm == {Pwm1_1, Pwm1_2}

\* C1: ws2811_fini is invoked at most once on a Driver; once a stop() has
\* released the session, every later stop(), the one run by drop included,
\* makes no hardware call and leaves the session as it is.
C1_ReleaseAtMostOnce ==
    [][/\ finiCalls' <= 1
       /\ (finiCalls >= 1 /\ (Stop \/ Drop)) =>
              (hwTrace' = <<>> /\ driver' = driver /\ finiCalls' = finiCalls)]_vars

\* a Driver that was claimed, released by stop() and then dropped: the drop
\* made no hardware call
C1_Witness ==
    /\ phase = "dropped"
    /\ claims = 1
    /\ finiCalls = 1
    /\ hwTrace = <<>>

\* C2: channel2 accepts a channel on GPIO 13 or 19 and stores it in slot
\* two; it raises a contract violation only for a PWM channel that is not on
\* the secondary pin pair.
C2_SecondaryPwmAccepted ==
    [][Channel2 =>
          /\ ch.gpionum \in SecondaryPwm =>
                (phase' = "config" /\ builder'.channel[2] = ch)
          /\ phase' = "panicked" => ch.gpionum \in PwmPin \ SecondaryPwm]_vars

\* C3: channel1 raises a contract violation iff the channel's pin is GPIO 13
\* or 19; otherwise it stores the channel in slot one and leaves slot two,
\* frequency, DMA channel and render wait time unchanged.
C3_Channel1Contract ==
    [][Channel1 =>
          IF ch.gpionum \in SecondaryPwm
          THEN /\ phase' = "panicked"
               /\ ret' = Call("channel1", "builder", Result("panic", 0))
               /\ builder' = builder
          ELSE /\ phase' = "config"
               /\ builder'.channel[1] = ch
               /\ builder'.channel[2] = builder.channel[2]
               /\ builder'.freq = builder.freq
               /\ builder'.dma_channel = builder.dma_channel
               /\ builder'.render_wait_time = builder.render_wait_time]_vars

\* a violation raised by channel1 on a builder whose frequency had been set
C3_Witness ==
    /\ phase = "panicked"
    /\ ret.op = "channel1"
    /\ builder.freq # WS2811_TARGET_FREQ

\* C4: the session handed to the hardware layer's render carries the render
\* wait time, frequency and DMA channel configured on the builder.
C4_WaitTimeCarried ==
    \A k \in 1..Len(hwTrace) :
        hwTrace[k].fn = "ws2811_render" =>
            /\ hwTrace[k].render_wait_time = builder.render_wait_time
            /\ hwTrace[k].freq = builder.freq
            /\ hwTrace[k].dmanum = builder.dma_channel

\* C5: once stop() has released the session, no render(), wait() or
\* set_gamma_factor() reaches the hardware layer.
C5_NoHardwareCallAfterStop ==
    \A k \in 1..Len(hwTrace) :
        hwTrace[k].fn \in {"ws2811_render", "ws2811_wait", "ws2811_set_custom_gamma_factor"}
            => ~hwTrace[k].released

\* C6: the hardware layer's render and wait routines are only invoked on a
\* claimed session (device handle not null), and the session is claimed at
\* most once per Driver.
C6_OnlyOnClaimedSession ==
    /\ \A k \in 1..Len(hwTrace) :
           hwTrace[k].fn \in {"ws2811_render", "ws2811_wait"} => hwTrace[k].device # NULL
    /\ claims <= 1

\* C7: when a Driver goes out of scope with its session claimed, the session
\* is released by one ws2811_fini call; when it goes out of scope unclaimed
\* or already released, no hardware call is made.
C7_DropReleases ==
    [][(phase # "dropped" /\ phase' = "dropped") =>
          IF driver.device # NULL
          THEN /\ driver'.device = NULL
               /\ \A i \in 1..2 : driver'.channel[i].leds = NULL
               /\ Len(hwTrace') = 1
               /\ hwTrace'[1].fn = "ws2811_fini"
               /\ finiCalls' = finiCalls + 1
          ELSE /\ hwTrace' = <<>>
               /\ finiCalls' = finiCalls
               /\ driver' = driver]_vars

\* a claimed Driver dropped right after a render or wait that returned an
\* error: the drop released the session
C7_Witness ==
    /\ phase = "dropped"
    /\ ret.op \in {"render", "wait"}
    /\ ret.result.kind = "Err"
    /\ Len(hwTrace) = 1
    /\ hwTrace[1].fn = "ws2811_fini"
    /\ driver.device = NULL

\* C8: render() and wait() make exactly one hardware call each and return
\* Ok(()) iff its result code is WS2811_SUCCESS, else Err with that code.
C8_ResultPassedThrough ==
    (phase = "built" /\ ret.op \in {"render", "wait"}) =>
        /\ Len(hwTrace) = 1
        /\ hwTrace[1].fn = (IF ret.op = "render" THEN "ws2811_render" ELSE "ws2811_wait")
        /\ hwTrace[1].result \in ErrorCode
        /\ (ret.result.kind = "Ok") <=> (hwTrace[1].result = "WS2811_SUCCESS")
        /\ hwTrace[1].result # "WS2811_SUCCESS" =>
               (ret.result.kind = "Err" /\ ret.result.val = hwTrace[1].result)

\* wait() on a claimed session returned the layer's out-of-memory code
C8_Witness ==
    /\ phase = "built"
    /\ ret = Call("wait", "driver", Result("Err", "WS2811_ERROR_OUT_OF_MEMORY"))
    /\ driver.device # NULL

\* C9: a channel made by disabled() and touched only by the brightness and
\* strip setters has pixel count 0 and a null pixel buffer, also inside a
\* builder slot or a Driver slot; leds() and leds_mut() on it fail.
C9_DisabledHasNoPixels ==
    [][/\ chInert' => (ch'.count = 0 /\ ch'.leds = NULL)
       /\ \A i \in 1..2 : slotInert'[i] =>
              /\ builder'.channel[i].count = 0
              /\ builder'.channel[i].leds = NULL
              /\ driver' # NoDriver =>
                     (driver'.channel[i].count = 0 /\ driver'.channel[i].leds = NULL)
       /\ (LedsValue /\ chInert) => ret'.result.kind = "panic"
       /\ \A i \in 1..2 : (LedsSlot /\ ret'.target = SlotName(i) /\ slotInert[i]) =>
              ret'.result.kind = "panic"]_vars

\* leds() on the disabled second slot of a claimed Driver failed, while the
\* first slot has a pixel buffer
C9_Witness ==
    /\ phase = "unwinding"
    /\ ret.op \in {"leds", "leds_mut"}
    /\ ret.target = "channel2"
    /\ ret.result.kind = "panic"
    /\ slotInert[2]
    /\ driver.device # NULL
    /\ driver.channel[1].leds # NULL

\* the fields of a channel other than its brightness
ChannelRest(c) == <<c.gpionum, c.invert, c.count, c.strip_type, c.leds,
                    c.wshift, c.rshift, c.gshift, c.bshift, c.gamma>>

\* C10: set_brightness/change_brightness change only the brightness field of
\* the channel they are applied to; the other slot is unchanged and
\* get_brightness then returns the value set.
C10_BrightnessOnly ==
    [][/\ \A b \in BrightnessValues :
              (SetBrightnessTo(b) \/ ChangeBrightnessValueTo(b)) =>
                  /\ ChannelRest(ch') = ChannelRest(ch)
                  /\ Channel_get_brightness(ch') = b
                  /\ builder' = builder
       /\ \A i \in 1..2, b \in BrightnessValues :
              ChangeBrightnessSlotTo(i, b) =>
                  /\ ChannelRest(driver'.channel[i]) = ChannelRest(driver.channel[i])
                  /\ Channel_get_brightness(driver'.channel[i]) = b
                  /\ driver'.channel[3 - i] = driver.channel[3 - i]
                  /\ driver'.device = driver.device]_vars

\* the first slot of a claimed Driver, built with brightness 0 and the GRB
\* strip type, now reports brightness 255
C10_Witness ==
    /\ phase = "built"
    /\ ret = Call("get_brightness", "channel1", Result("value", 255))
    /\ builder.channel[1].brightness = 0
    /\ driver.channel[1].strip_type = "WS2811_STRIP_GRB"
    /\ driver.channel[1].leds # NULL
====
